---- MODULE Spec2Model ----
(***************************************************************************)
(* Model of the Hyperledger Composer language server                       *)
(* (server/src/server.ts): the document revalidation dispatcher            *)
(* validateTextDocument with its three validation helpers, and the         *)
(* exception-to-diagnostic translator buildAndSendDiagnosticFromException. *)
(*                                                                         *)
(* JavaScript strings are sequences of one-character strings, so that      *)
(* lastIndexOf, substr and parseInt are computed character by character.   *)
(* The composer-common library (ModelManager, AclManager, AclFile) is the  *)
(* environment: each of its calls either returns or throws an error, and   *)
(* the choice is an input of the action that makes the call.               *)
(***************************************************************************)
EXTENDS Integers, Sequences, FiniteSets, TLC

VARIABLES
    aclFiles,     \* the AclFile objects the AclManager tracks (getAclFile() is its element, or null)
    serverState,  \* "running", or "crashed" after an exception escaped a handler
    event,        \* the event handled last, by the server or by the client's editor listener
    trace,        \* the library and connection calls that handler made, in order
    exc,          \* translator input: the error, line count and URI handed to it
    diag,         \* translator output: the connection calls it made
    live,         \* per URI, the diagnostics the client shows (the last list published)
    documents,    \* the open documents, in the order documents.all() lists them
    settings,     \* the user's configuration values the diagram flow reads and writes
    pending,      \* the settings updates asked for and not yet written (equal ones once)
    extensions,   \* the ids of the installed extensions
    editors,      \* the editor window: active editor, visible editors, open documents
    puml,         \* the temporary diagram document: its text, and whether it is unsaved
    requests,     \* per openUML request in progress, the position and locals of handleGenerateUml
    reported,     \* whether an error about the missing previewer was shown and dismissed
    ready,        \* whether client.onReady() has resolved and the listeners are registered
    sent          \* the notifications the last change of the active editor sent to the server

serverVars == <<aclFiles, serverState, event, trace>>

translatorVars == <<exc, diag>>

clientVars == <<settings, pending, extensions, editors, puml, requests, reported,
               ready, sent>>

vars == <<aclFiles, serverState, event, trace, exc, diag, live, documents,
          settings, pending, extensions, editors, puml, requests, reported,
          ready, sent>>

(***************************************************************************)
(* Bounds of the model.                                                    *)
(***************************************************************************)
MaxTextLen == 1     \* longest document text, in characters
MaxNum == 10        \* largest number written into an error message
MaxNeg == 1         \* largest magnitude of a negative number in a message
MaxCoord == 2       \* largest 1-based line/column of a structured location
MaxLineCount == 2   \* largest line count handed to the translator directly
MaxRequests == 1    \* openUML requests the client handles at the same time

(***************************************************************************)
(* JavaScript string and number primitives.                                *)
(***************************************************************************)
\* Number.MAX_VALUE: stands above every column the model can produce.
MAX_VALUE == 2147483647

DigitChars == <<"0", "1", "2", "3", "4", "5", "6", "7", "8", "9">>

IsDigit(c) == \E i \in 1..10 : DigitChars[i] = c

DigitValue(c) == (CHOOSE i \in 1..10 : DigitChars[i] = c) - 1

\* Number.prototype.toString for a natural number, most significant digit first.
RECURSIVE decimal(_)
decimal(n) ==
    IF n < 10 THEN <<DigitChars[n + 1]>>
    ELSE Append(decimal(n \div 10), DigitChars[(n % 10) + 1])

SetMax(S) == CHOOSE x \in S : \A y \in S : y <= x

\* String.prototype.lastIndexOf(p): 0-based index of the last occurrence, or -1.
lastIndexOf(s, p) ==
    LET hits == {i \in 0..(Len(s) - Len(p)) : SubSeq(s, i + 1, i + Len(p)) = p}
    IN  IF hits = {} THEN -1 ELSE SetMax(hits)

\* String.prototype.substr(start) with start >= 0.
substrFrom(s, start) == SubSeq(s, start + 1, Len(s))

\* String.prototype.substr(0, length).
substrTo(s, length) == SubSeq(s, 1, IF length < Len(s) THEN length ELSE Len(s))

RECURSIVE SkipSpaces(_)
SkipSpaces(s) ==
    IF s # <<>> /\ Head(s) = " " THEN SkipSpaces(Tail(s)) ELSE s

RECURSIVE ReadDigits(_, _)
ReadDigits(s, acc) ==
    IF s # <<>> /\ IsDigit(Head(s))
    THEN ReadDigits(Tail(s), 10 * acc + DigitValue(Head(s)))
    ELSE acc

\* A JavaScript number that may be NaN.
NaN == [isNaN |-> TRUE, value |-> 0]
Num(n) == [isNaN |-> FALSE, value |-> n]

\* parseInt(s, 10): leading blanks, an optional sign, then the longest run of
\* decimal digits; NaN when there is no digit.
parseInt(s) ==
    LET t == SkipSpaces(s)
        signed == t # <<>> /\ Head(t) \in {"-", "+"}
        body == IF signed THEN Tail(t) ELSE t
        n == ReadDigits(body, 0)
    IN  IF body = <<>> \/ ~IsDigit(Head(body)) THEN NaN
        ELSE IF signed /\ Head(t) = "-" THEN Num(0 - n) ELSE Num(n)

\* x - 1 on a JavaScript number: NaN - 1 is NaN.
minusOne(x) == IF x.isNaN THEN NaN ELSE Num(x.value - 1)

\* "if (isNaN(v) || v < 0) { v = 0; }"
sanityCheck(x) == IF x.isNaN \/ x.value < 0 THEN 0 ELSE x.value

(***************************************************************************)
(* The literals of server.ts.                                              *)
(***************************************************************************)
DotLine == <<".", " ", "L", "i", "n", "e", " ">>
ColumnWord == <<" ", "c", "o", "l", "u", "m", "n", " ">>
ColonSpace == <<":", " ">>
ComposerSource == "Composer"
SeverityError == "Error"

(***************************************************************************)
(* Exception-to-diagnostic translator.                                     *)
(* An error is [name, message, hasGetFileLocation, location]; location is  *)
(* <<>> when getFileLocation() returns a falsy value (or does not exist)   *)
(* and <<[start |-> [line, column], end |-> [line, column]]>> otherwise.   *)
(***************************************************************************)
\* let fullMsg = err.name + ": " + err.message;
fullMsgOf(err) == err.name \o ColonSpace \o err.message

\* defaultLocals with the end line taken as the last line's 0-based index.
defaultLocalsLastLineIndex(err, lineCount) ==
    [curLine |-> 0, curColumn |-> 0, endLine |-> lineCount - 1,
     endColumn |-> MAX_VALUE, finalMsg |-> fullMsgOf(err)]

\* The locals of buildAndSendDiagnosticFromException before any location is
\* extracted: the whole document, and the full message.
defaultLocals(err, lineCount) ==
    [curLine |-> 0, curColumn |-> 0, endLine |-> lineCount,
     endColumn |-> MAX_VALUE, finalMsg |-> fullMsgOf(err)]

\* structuredLocals with the end position left 1-based.
structuredLocalsEndOneBased(err, d) ==
    IF err.location # <<>>
    THEN LET location == err.location[1]
         IN  [d EXCEPT !.curLine = location.start.line - 1,
                       !.endLine = location.end.line,
                       !.curColumn = location.start.column - 1,
                       !.endColumn = location.end.column]
    ELSE d

\* "genuine composer exception": the branch taken when err.getFileLocation is
\* a function.
structuredLocals(err, d) ==
    IF err.location # <<>>
    THEN LET location == err.location[1]
         IN  [d EXCEPT !.curLine = location.start.line - 1,
                       !.endLine = location.end.line - 1,
                       !.curColumn = location.start.column - 1,
                       !.endColumn = location.end.column - 1]
    ELSE d

\* messageLocals without "endLine = curLine": the end line stays the line count.
messageLocalsKeepEndLine(fullMsg, d) ==
    LET index == lastIndexOf(fullMsg, DotLine)
    IN  IF index # -1
        THEN LET current == substrFrom(fullMsg, index + 7)
                 curLine == sanityCheck(minusOne(parseInt(current)))
                 index2 == lastIndexOf(current, ColumnWord)
                 current2 == substrFrom(current, index2 + 8)
                 curColumn == sanityCheck(minusOne(parseInt(current2)))
             IN  [curLine |-> curLine, curColumn |-> curColumn,
                  endLine |-> d.endLine, endColumn |-> curColumn,
                  finalMsg |-> substrTo(fullMsg, index + 1)]
        ELSE d

\* "possible composer exception": the branch taken when the error has no
\* getFileLocation; the location is pulled out of the message text.
messageLocals(fullMsg, d) ==
    LET index == lastIndexOf(fullMsg, DotLine)
    IN  IF index # -1
        THEN LET current == substrFrom(fullMsg, index + 7)
                 curLine == sanityCheck(minusOne(parseInt(current)))
                 index2 == lastIndexOf(current, ColumnWord)
                 current2 == substrFrom(current, index2 + 8)
                 curColumn == sanityCheck(minusOne(parseInt(current2)))
             IN  [curLine |-> curLine, curColumn |-> curColumn,
                  endLine |-> curLine, endColumn |-> curColumn,
                  finalMsg |-> substrTo(fullMsg, index + 1)]
        ELSE d

locals(err, lineCount) ==
    IF err.hasGetFileLocation
    THEN structuredLocals(err, defaultLocals(err, lineCount))
    ELSE messageLocals(fullMsgOf(err), defaultLocals(err, lineCount))

\* The diagnostic pushed onto the list.
buildDiagnostic(err, lineCount) ==
    LET l == locals(err, lineCount)
    IN  [severity |-> SeverityError,
         range |-> [start |-> [line |-> l.curLine, character |-> l.curColumn],
                    end |-> [line |-> l.endLine, character |-> l.endColumn]],
         code |-> err.name,
         message |-> l.finalMsg,
         source |-> ComposerSource]

\* connection.sendDiagnostics({ uri, diagnostics })
sendDiagnostics(uri, diagnostics) ==
    [call |-> "sendDiagnostics", uri |-> uri, diagnostics |-> diagnostics]

\* The translator pushing onto a list that still holds an earlier diagnostic.
buildAndSendAccumulated(err, lineCount, sourceURI) ==
    <<sendDiagnostics(sourceURI,
        <<buildDiagnostic(err, lineCount), buildDiagnostic(err, lineCount)>>)>>

\* The translator pushing a diagnostic only when it found a location.
buildAndSendOnlyLocated(err, lineCount, sourceURI) ==
    IF locals(err, lineCount) = defaultLocals(err, lineCount)
    THEN <<sendDiagnostics(sourceURI, <<>>)>>
    ELSE <<sendDiagnostics(sourceURI, <<buildDiagnostic(err, lineCount)>>)>>

\* The connection calls the translator makes.
buildAndSendDiagnosticFromException(err, lineCount, sourceURI) ==
    <<sendDiagnostics(sourceURI, <<buildDiagnostic(err, lineCount)>>)>>

\* A successful validation that publishes nothing.
sendDiagnosticSuccessSkipped(sourceURI) == <<>>

\* The connection calls of a successful validation: an empty list.
sendDiagnosticSuccess(sourceURI) ==
    <<sendDiagnostics(sourceURI, <<>>)>>

(***************************************************************************)
(* Errors the translator is applied to.  A message is                      *)
(*   <text> [". Line " <number>] [<separator> <number>]                    *)
(* where <number> is a natural number, a negative number or not a number,  *)
(* and <separator> is " column " or something else.                        *)
(***************************************************************************)
Str_Err == <<"E", "r", "r">>
Str_NameWithLine == <<"E", ".", " ", "L", "i", "n", "e", " ", "2">>
Str_Foo == <<"F", "o", "o", " ", "e", "r", "r", "o", "r">>
Str_FooLine == <<"A", ".", " ", "L", "i", "n", "e", " ", "9", " ", "b">>
Str_CommaCol == <<",", " ", "c", "o", "l", " ">>

ErrorNames == {Str_Err, Str_NameWithLine}

MessageTexts == {<<>>, Str_Foo, Str_FooLine}

NumberTexts ==
    {decimal(n) : n \in 0..MaxNum}
        \cup {<<"-">> \o decimal(n) : n \in 1..MaxNeg}
        \cup {<<>>, <<"x">>}

LineParts == {<<>>} \cup {DotLine \o n : n \in NumberTexts}

ColumnParts ==
    {<<>>} \cup {sep \o n : sep \in {ColumnWord, Str_CommaCol}, n \in NumberTexts}

Messages == {t \o l \o c : t \in MessageTexts, l \in LineParts, c \in ColumnParts}

Positions == [line : 1..MaxCoord, column : 1..MaxCoord]

Locations == [start : Positions, end : Positions]

\* Errors with a getFileLocation accessor (composer's BaseFileException).
StructuredErrors(names, messages) ==
    [name : names, message : messages, hasGetFileLocation : {TRUE},
     location : {<<>>} \cup {<<loc>> : loc \in Locations}]

\* Errors without the accessor (a plain Error, a parser SyntaxError).
PlainErrors(names, messages) ==
    [name : names, message : messages, hasGetFileLocation : {FALSE},
     location : {<<>>}]

\* Messages whose numbers are absent or MaxNum: the texts given to errors that
\* carry a structured location, where the text plays no part.
FewNumberTexts == {decimal(MaxNum)}

FewMessages ==
    {t \o l \o c : t \in MessageTexts,
                   l \in {<<>>} \cup {DotLine \o n : n \in FewNumberTexts},
                   c \in {<<>>} \cup {ColumnWord \o n : n \in FewNumberTexts}}

TranslatorErrors ==
    StructuredErrors(ErrorNames, FewMessages) \cup PlainErrors(ErrorNames, Messages)

(***************************************************************************)
(* Documents, and the errors the library throws in the server model.       *)
(***************************************************************************)
URIs == {"file:///a", "file:///b"}

LanguageIds == {"composer", "composer-acl", "composer-qry"}

TextChars == {"a", "\n"}

\* Every text of at most MaxTextLen characters.
Texts == UNION {[1..n -> TextChars] : n \in 0..MaxTextLen}

\* TextDocument.lineCount: one more than the number of line breaks.
lineCountOf(text) == 1 + Cardinality({i \in 1..Len(text) : text[i] = "\n"})

TextDocuments == [uri : URIs, languageId : LanguageIds, text : Texts]

Str_LineColumn == Str_Foo \o DotLine \o <<"5">> \o ColumnWord \o <<"3">>

LocatedError ==
    [name |-> Str_Err, message |-> Str_Foo, hasGetFileLocation |-> TRUE,
     location |-> <<[start |-> [line |-> 1, column |-> 2],
                     end |-> [line |-> 2, column |-> 1]]>>]

TextLocatedError ==
    [name |-> Str_Err, message |-> Str_LineColumn, hasGetFileLocation |-> FALSE,
     location |-> <<>>]

UnlocatedError ==
    [name |-> Str_Err, message |-> Str_Foo, hasGetFileLocation |-> FALSE,
     location |-> <<>>]

ServerErrors == {LocatedError, TextLocatedError, UnlocatedError}

\* What a library call does: <<>> when it returns, <<err>> when it throws err.
Outcomes == {<<>>} \cup {<<e>> : e \in ServerErrors}

\* The record of one library call in the trace.
libraryCall(name, uri, text, outcome) ==
    [call |-> name, uri |-> uri, text |-> text, thrown |-> outcome]

(***************************************************************************)
(* The validation helpers.  Each yields the calls made, the AclManager's   *)
(* files afterwards, and the exception that escaped it (<<>> when none).   *)
(***************************************************************************)
\* aclManager.getAclFile(), where it is not null.
getAclFile(files) == CHOOSE f \in files : TRUE

\* setAclFile keeping the files set before.
setAclFileAdds(files, aclFile) == files \cup {aclFile}

\* AclManager.setAclFile once the file validated: the one tracked file is replaced.
setAclFile(files, aclFile) == {aclFile}

\* validateCtoModelFile trying addModelFile a second time after it threw.
validateCtoModelFileRetry(textDocument, files, outcome) ==
    LET add == libraryCall("addModelFile", textDocument.uri, textDocument.text, outcome)
    IN  IF outcome = <<>>
        THEN [calls |-> <<add>> \o sendDiagnosticSuccess(textDocument.uri),
              aclFiles |-> files, uncaught |-> <<>>]
        ELSE [calls |-> <<add, add>> \o buildAndSendDiagnosticFromException(
                            outcome[1], lineCountOf(textDocument.text), textDocument.uri),
              aclFiles |-> files, uncaught |-> <<>>]

validateCtoModelFile(textDocument, files, outcome) ==
    LET add == libraryCall("addModelFile", textDocument.uri, textDocument.text, outcome)
    IN  IF outcome = <<>>
        THEN [calls |-> <<add>> \o sendDiagnosticSuccess(textDocument.uri),
              aclFiles |-> files, uncaught |-> <<>>]
        ELSE [calls |-> <<add>> \o buildAndSendDiagnosticFromException(
                            outcome[1], lineCountOf(textDocument.text), textDocument.uri),
              aclFiles |-> files, uncaught |-> <<>>]

\* validateNewAclModelFile without "aclFile.lineCount = textDocument.lineCount":
\* the file is tracked with no line count of its own.
validateNewAclModelFileCountNotStored(textDocument, files, createOutcome, setOutcome) ==
    LET create == libraryCall("createAclFile", textDocument.uri, textDocument.text,
                              createOutcome)
        aclFile == [identifier |-> textDocument.uri, text |-> textDocument.text,
                    lineCount |-> 0]
        set == libraryCall("setAclFile", aclFile.identifier, aclFile.text, setOutcome)
    IN  IF createOutcome # <<>>
        THEN [calls |-> <<create>> \o buildAndSendDiagnosticFromException(
                            createOutcome[1], lineCountOf(textDocument.text),
                            textDocument.uri),
              aclFiles |-> files, uncaught |-> <<>>]
        ELSE IF setOutcome # <<>>
        THEN [calls |-> <<create, set>> \o buildAndSendDiagnosticFromException(
                            setOutcome[1], lineCountOf(textDocument.text),
                            textDocument.uri),
              aclFiles |-> files, uncaught |-> <<>>]
        ELSE [calls |-> <<create, set>> \o sendDiagnosticSuccess(textDocument.uri),
              aclFiles |-> setAclFile(files, aclFile), uncaught |-> <<>>]

validateNewAclModelFile(textDocument, files, createOutcome, setOutcome) ==
    LET create == libraryCall("createAclFile", textDocument.uri, textDocument.text,
                              createOutcome)
        aclFile == [identifier |-> textDocument.uri, text |-> textDocument.text,
                    lineCount |-> lineCountOf(textDocument.text)]
        set == libraryCall("setAclFile", aclFile.identifier, aclFile.text, setOutcome)
    IN  IF createOutcome # <<>>
        THEN [calls |-> <<create>> \o buildAndSendDiagnosticFromException(
                            createOutcome[1], lineCountOf(textDocument.text),
                            textDocument.uri),
              aclFiles |-> files, uncaught |-> <<>>]
        ELSE IF setOutcome # <<>>
        THEN [calls |-> <<create, set>> \o buildAndSendDiagnosticFromException(
                            setOutcome[1], lineCountOf(textDocument.text),
                            textDocument.uri),
              aclFiles |-> files, uncaught |-> <<>>]
        ELSE [calls |-> <<create, set>> \o sendDiagnosticSuccess(textDocument.uri),
              aclFiles |-> setAclFile(files, aclFile), uncaught |-> <<>>]

\* validateExistingAclModelFile without its try/catch.
validateExistingAclModelFileNoCatch(aclFile, files, outcome) ==
    LET validate == libraryCall("validate", aclFile.identifier, aclFile.text, outcome)
    IN  IF outcome = <<>>
        THEN [calls |-> <<validate>> \o sendDiagnosticSuccess(aclFile.identifier),
              aclFiles |-> files, uncaught |-> <<>>]
        ELSE [calls |-> <<validate>>, aclFiles |-> files, uncaught |-> outcome]

validateExistingAclModelFile(aclFile, files, outcome) ==
    LET validate == libraryCall("validate", aclFile.identifier, aclFile.text, outcome)
    IN  IF outcome = <<>>
        THEN [calls |-> <<validate>> \o sendDiagnosticSuccess(aclFile.identifier),
              aclFiles |-> files, uncaught |-> <<>>]
        ELSE [calls |-> <<validate>> \o buildAndSendDiagnosticFromException(
                            outcome[1], aclFile.lineCount, aclFile.identifier),
              aclFiles |-> files, uncaught |-> <<>>]

\* One helper after another: the second runs only if no exception escaped the
\* first.
andThen(first, second) ==
    IF first.uncaught # <<>> THEN first
    ELSE [calls |-> first.calls \o second.calls, aclFiles |-> second.aclFiles,
          uncaught |-> second.uncaught]

nothingDone(files) == [calls |-> <<>>, aclFiles |-> files, uncaught |-> <<>>]

\* The dispatcher revalidating the ACL file only after a valid model file.
validateTextDocumentCascadeOnSuccess(textDocument, files, o1, o2) ==
    IF Len(textDocument.text) > 0
    THEN IF textDocument.languageId = "composer-acl"
         THEN validateNewAclModelFile(textDocument, files, o1, o2)
         ELSE LET cto == validateCtoModelFile(textDocument, files, o1)
              IN  IF cto.aclFiles # {} /\ o1 = <<>>
                  THEN andThen(cto, validateExistingAclModelFile(
                                        getAclFile(cto.aclFiles), cto.aclFiles, o2))
                  ELSE cto
    ELSE nothingDone(files)

\* The dispatcher without the "only add files with data" test.
validateTextDocumentNoEmptyTest(textDocument, files, o1, o2) ==
    IF textDocument.languageId = "composer-acl"
    THEN validateNewAclModelFile(textDocument, files, o1, o2)
    ELSE LET cto == validateCtoModelFile(textDocument, files, o1)
         IN  IF cto.aclFiles # {}
             THEN andThen(cto, validateExistingAclModelFile(
                                   getAclFile(cto.aclFiles), cto.aclFiles, o2))
             ELSE cto

\* The dispatcher revalidating the tracked ACL file after a permissions
\* document as well.
validateTextDocumentCascadeAfterAcl(textDocument, files, o1, o2) ==
    IF Len(textDocument.text) > 0
    THEN LET first == IF textDocument.languageId = "composer-acl"
                      THEN validateNewAclModelFile(textDocument, files, o1, o2)
                      ELSE validateCtoModelFile(textDocument, files, o1)
         IN  IF first.aclFiles # {}
             THEN andThen(first, validateExistingAclModelFile(
                                     getAclFile(first.aclFiles), first.aclFiles, o2))
             ELSE first
    ELSE nothingDone(files)

\* The dispatcher taking only the model kind to the model path: a document
\* of the query kind is left alone.
validateTextDocumentQueryIgnored(textDocument, files, o1, o2) ==
    IF Len(textDocument.text) > 0
    THEN IF textDocument.languageId = "composer-acl"
         THEN validateNewAclModelFile(textDocument, files, o1, o2)
         ELSE IF textDocument.languageId = "composer"
              THEN LET cto == validateCtoModelFile(textDocument, files, o1)
                   IN  IF cto.aclFiles # {}
                       THEN andThen(cto, validateExistingAclModelFile(
                                             getAclFile(cto.aclFiles), cto.aclFiles, o2))
                       ELSE cto
              ELSE nothingDone(files)
    ELSE nothingDone(files)

\* The dispatcher.  o1 and o2 are the outcomes of the library calls it makes, in
\* call order.
validateTextDocument(textDocument, files, o1, o2) ==
    IF Len(textDocument.text) > 0
    THEN IF textDocument.languageId = "composer-acl"
         THEN validateNewAclModelFile(textDocument, files, o1, o2)
         ELSE LET cto == validateCtoModelFile(textDocument, files, o1)
              IN  IF cto.aclFiles # {}
                  THEN andThen(cto, validateExistingAclModelFile(
                                        getAclFile(cto.aclFiles), cto.aclFiles, o2))
                  ELSE cto
    ELSE nothingDone(files)

(***************************************************************************)
(* The client (client/src/extension.ts): the diagram flow                  *)
(* handleGenerateUml.  The function is async: it runs from one await to    *)
(* the next, and each operator below is one such stretch, applied when the *)
(* awaited editor operation has completed.                                 *)
(***************************************************************************)
CtoUri == "file:///m.cto"
AclUri == "file:///permissions.acl"
PumlUri == "file:///tmp/composer.puml"
Undefined == "undefined"
PlantUml == "jebbs.plantuml"

\* window.activeTextEditor when there is none; its viewColumn is undefined.
NoEditor == [uri |-> Undefined, viewColumn |-> 0]

ViewColumnOne == 1

\* activeUri.endsWith('.cto')
endsWithCto(uri) == uri = CtoUri

\* The handlers that can be in progress at the same time.
Requests == 1..MaxRequests

\* One more: a request arrives while MaxRequests are in progress.
OverlappingRequests == 1..(MaxRequests + 1)

\* The diagram text request r carries.
docContentOf(r) == <<"@", "startuml", r>>

\* A request that has not arrived.
NotArrived ==
    [pc |-> "idle", originatingFileName |-> Undefined, targetViewColumn |-> 0,
     autoShowDiagam |-> FALSE, keepSrcFileOpen |-> FALSE,
     ops |-> <<>>, ended |-> 0, failed |-> {}, updates |-> <<>>,
     target |-> NoEditor]

\* The function reaches "await <op>": the operation is started.
await(req, op) == [req EXCEPT !.pc = op, !.ops = Append(@, op)]

\* The awaited operation has completed and the function goes on.
resumed(req) == [req EXCEPT !.ended = @ + 1]

\* The function returns: its locals are gone.
finish(req) == NotArrived

\* The two updates of the previewer's settings.
previewerUpdates ==
    <<[key |-> "plantuml.previewAutoUpdate", value |-> "false"],
      [key |-> "plantuml.previewFileType", value |-> "svg"]>>

\* The test replaced by one that always asks for the updates.
needsPreviewerUpdateAlways(cfg) == TRUE

\* if (autoUpdate || (fileType !== 'svg'))
needsPreviewerUpdate(cfg) ==
    cfg.previewAutoUpdate \/ cfg.previewFileType # "svg"

\* begin with autoShowDiagam left on when the previewer is missing.
beginKeepsAutoShow(cfg, installed, active, originatingFileName) ==
    LET origin == IF /\ active # NoEditor
                     /\ originatingFileName = Undefined
                     /\ endsWithCto(active.uri)
                  THEN active.uri ELSE originatingFileName
        column == IF active # NoEditor /\ origin = active.uri
                  THEN active.viewColumn ELSE 0
        started == [NotArrived EXCEPT !.originatingFileName = origin,
                                     !.targetViewColumn = column,
                                     !.autoShowDiagam = cfg.autoShowDiagam,
                                     !.keepSrcFileOpen = cfg.keepSourceFileOpen]
    IN  IF cfg.autoShowDiagam /\ PlantUml \in installed /\ needsPreviewerUpdate(cfg)
        THEN await([started EXCEPT !.updates = previewerUpdates], "openTextDocument")
        ELSE await(started, "openTextDocument")

\* From the call to the first await: the originating file and its view
\* column, the configuration, the previewer check and the settings updates.
begin(cfg, installed, active, originatingFileName) ==
    LET origin == IF /\ active # NoEditor
                     /\ originatingFileName = Undefined
                     /\ endsWithCto(active.uri)
                  THEN active.uri ELSE originatingFileName
        column == IF active # NoEditor /\ origin = active.uri
                  THEN active.viewColumn ELSE 0
        started == [NotArrived EXCEPT !.originatingFileName = origin,
                                     !.targetViewColumn = column,
                                     !.autoShowDiagam = cfg.autoShowDiagam,
                                     !.keepSrcFileOpen = cfg.keepSourceFileOpen]
    IN  IF cfg.autoShowDiagam
        THEN IF PlantUml \notin installed
             THEN await(started, "showErrorMessage")
             ELSE IF needsPreviewerUpdate(cfg)
                  THEN await([started EXCEPT !.updates = previewerUpdates],
                             "openTextDocument")
                  ELSE await(started, "openTextDocument")
        ELSE await(started, "openTextDocument")

\* After the error message about the missing previewer: no diagram is shown.
afterErrorMessage(req) ==
    await([resumed(req) EXCEPT !.autoShowDiagam = FALSE], "openTextDocument")

\* afterOpen asking for the edit without awaiting showTextDocument.
afterOpenShowNotAwaited(req) ==
    await(await(resumed(req), "showTextDocument"), "edit")

afterOpen(req) == await(resumed(req), "showTextDocument")

afterShow(req) == await(resumed(req), "edit")

\* .then(async (editApplied) => { if (!editApplied) { ...; return; } ... save
afterEdit(req, editApplied) ==
    IF ~editApplied
    THEN finish([resumed(req) EXCEPT !.failed = @ \cup {"edit"}])
    ELSE await(resumed(req), "save")

\* The first visible editor of the originating file, as <<editor>>, or <<>>.
firstVisible(visible, uri) ==
    LET hits == {i \in 1..Len(visible) : visible[i].uri = uri}
    IN  IF hits = {} THEN <<>>
        ELSE <<visible[CHOOSE i \in hits : \A j \in hits : i <= j]>>

\* restoreFocus looking into the open documents before the visible editors.
restoreFocusDocumentsFirst(req, ed) ==
    IF req.autoShowDiagam
    THEN IF req.originatingFileName \in ed.documents
         THEN await([req EXCEPT !.target = [uri |-> req.originatingFileName,
                                            viewColumn |-> req.targetViewColumn]],
                    "showOriginatingDocument")
         ELSE IF firstVisible(ed.visible, req.originatingFileName) # <<>>
              THEN await([req EXCEPT !.target =
                              firstVisible(ed.visible, req.originatingFileName)[1]],
                         "showOriginatingDocument")
              ELSE finish(req)
    ELSE finish(req)

\* "reset the correct cto editor as active if we are showing the diagram".
restoreFocus(req, ed) ==
    IF req.autoShowDiagam
    THEN IF firstVisible(ed.visible, req.originatingFileName) # <<>>
         THEN await([req EXCEPT !.target =
                         firstVisible(ed.visible, req.originatingFileName)[1]],
                    "showOriginatingDocument")
         ELSE IF req.originatingFileName \in ed.documents
              THEN await([req EXCEPT !.target = [uri |-> req.originatingFileName,
                                                 viewColumn |-> req.targetViewColumn]],
                         "showOriginatingDocument")
              ELSE finish(req)
    ELSE finish(req)

\* "check for option to close the composer.puml file".
closeOrCursorTop(req, ed) ==
    IF ~req.keepSrcFileOpen
    THEN IF ed.active # NoEditor /\ ed.active.uri = PumlUri
         THEN await(req, "closeActiveEditor")
         ELSE restoreFocus(req, ed)
    ELSE await(req, "cursorTop")

\* const saved = await document.save(); if (!saved) { console.log(...) }
afterSave(req, saved, ed) ==
    LET r == IF saved THEN resumed(req)
             ELSE [resumed(req) EXCEPT !.failed = @ \cup {"save"}]
    IN  IF r.autoShowDiagam THEN await(r, "plantuml.preview")
        ELSE closeOrCursorTop(r, ed)

\* try { result = await commands.executeCommand('plantuml.preview'); }
\* catch (ex) { ...; return await window.showErrorMessage('' + ex); }
afterPreview(req, threw, ed) ==
    IF threw
    THEN await([resumed(req) EXCEPT !.failed = @ \cup {"plantuml.preview"}],
               "showPreviewError")
    ELSE closeOrCursorTop(resumed(req), ed)

afterPreviewError(req) == finish(resumed(req))

afterCloseOrCursorTop(req, ed) == restoreFocus(resumed(req), ed)

afterRestoreFocus(req) == finish(resumed(req))

(***************************************************************************)
(* What the editor operations do to the window.                            *)
(***************************************************************************)
\* showTextDocument(document, column): the document becomes the visible editor
\* of that column (of column one when the column is undefined) and the active one.
showTextDocument(ed, uri, viewColumn) ==
    LET column == IF viewColumn = 0 THEN ViewColumnOne ELSE viewColumn
        editor == [uri |-> uri, viewColumn |-> column]
        inColumn == {i \in 1..Len(ed.visible) : ed.visible[i].viewColumn = column}
    IN  [active |-> editor,
         visible |-> IF inColumn = {} THEN Append(ed.visible, editor)
                     ELSE [i \in 1..Len(ed.visible) |->
                              IF i \in inColumn THEN editor ELSE ed.visible[i]],
         documents |-> ed.documents \cup {uri}]

\* The sequence without its i-th element.
without(seq, i) == SubSeq(seq, 1, i - 1) \o SubSeq(seq, i + 1, Len(seq))

\* workbench.action.closeActiveEditor: the editor that is active when the
\* command takes effect is closed; the first remaining editor becomes active.
closedActive(ed) ==
    IF ed.active = NoEditor THEN ed
    ELSE LET at == {i \in 1..Len(ed.visible) : ed.visible[i] = ed.active}
             rest == IF at = {} THEN ed.visible
                     ELSE without(ed.visible, CHOOSE i \in at : TRUE)
         IN  [active |-> IF rest = <<>> THEN NoEditor ELSE rest[1],
              visible |-> rest,
              documents |-> ed.documents]

(***************************************************************************)
(* The server: one action per handled event.                               *)
(***************************************************************************)
NoEvent == [kind |-> "none"]
NoException == [given |-> FALSE]

\* Nothing published yet: no URI has live diagnostics.
NothingLive == [u \in URIs |-> <<>>]

ServerStarted ==
    /\ aclFiles = {}
    /\ serverState = "running"
    /\ event = NoEvent
    /\ trace = <<>>
    /\ documents = <<>>

TranslatorUnused ==
    /\ exc = NoException
    /\ diag = <<>>

\* The client before any diagram request, in a window without editors.
ClientStarted ==
    /\ settings = [keepSourceFileOpen |-> FALSE, autoShowDiagam |-> TRUE,
                   previewAutoUpdate |-> TRUE, previewFileType |-> "png"]
    /\ pending = {}
    /\ extensions = {}
    /\ editors = [active |-> NoEditor, visible |-> <<>>, documents |-> {}]
    /\ puml = [text |-> <<>>, dirty |-> FALSE]
    /\ requests = [r \in Requests |-> NotArrived]
    /\ reported = FALSE
    /\ ready = FALSE
    /\ sent = <<>>

Init ==
    /\ ServerStarted
    /\ TranslatorUnused
    /\ live = NothingLive
    /\ ClientStarted

\* The handler of documents.onDidChangeContent, run to its end (it awaits
\* nothing), for a document and library outcomes drawn from the given sets.
HandleChangeContent(textDocuments, outcomes) ==
    /\ serverState = "running"
    /\ \E textDocument \in textDocuments, o1 \in outcomes, o2 \in outcomes :
        LET r == validateTextDocument(textDocument, aclFiles, o1, o2)
        IN  /\ event' = [kind |-> "didChangeContent", document |-> textDocument,
                         aclBefore |-> aclFiles]
            /\ trace' = r.calls
            /\ aclFiles' = r.aclFiles
            /\ serverState' = IF r.uncaught # <<>> THEN "crashed" ELSE "running"

\* documents.onDidChangeContent: a document was opened or its content changed.
DidChangeContent ==
    /\ HandleChangeContent(TextDocuments, Outcomes)
    /\ UNCHANGED <<exc, diag, live, documents>>
    /\ UNCHANGED clientVars

Next == DidChangeContent

Spec == Init /\ [][Next]_vars

(***************************************************************************)
(* The translator on its own: every error of TranslatorErrors, once.       *)
(***************************************************************************)
InitDiag ==
    /\ ServerStarted
    /\ live = NothingLive
    /\ ClientStarted
    /\ \E err \in TranslatorErrors, lineCount \in 1..MaxLineCount, uri \in URIs :
        exc = [given |-> TRUE, err |-> err, lineCount |-> lineCount, sourceURI |-> uri]
    /\ diag = <<>>

Translate ==
    /\ diag = <<>>
    /\ diag' = buildAndSendDiagnosticFromException(exc.err, exc.lineCount, exc.sourceURI)
    /\ UNCHANGED <<aclFiles, serverState, event, trace, exc, live, documents>>
    /\ UNCHANGED clientVars

NextDiag == Translate

SpecDiag == InitDiag /\ [][NextDiag]_vars

(***************************************************************************)
(* The server together with the diagnostics the client shows.  A publish   *)
(* for a URI replaces the list shown for it (textDocument/publishDiagnostics*)
(* carries the complete list).  The library throws one of two errors here, *)
(* whose diagnostics do not depend on the line count.                      *)
(***************************************************************************)
PublishedErrors == {LocatedError, TextLocatedError}

PublishedOutcomes == {<<>>} \cup {<<e>> : e \in PublishedErrors}

PublishedDocuments ==
    {d \in TextDocuments : d.languageId \in {"composer", "composer-acl"}}

\* The effect of one call on what the client shows.
received(shown, c) ==
    IF c.call = "sendDiagnostics" THEN [shown EXCEPT ![c.uri] = c.diagnostics]
    ELSE shown

\* The effect of a handler's calls, in the order they were made.
RECURSIVE receivedAll(_, _)
receivedAll(shown, calls) ==
    IF calls = <<>> THEN shown
    ELSE receivedAll(received(shown, Head(calls)), Tail(calls))

DidChangeContentPublished ==
    /\ HandleChangeContent(PublishedDocuments, PublishedOutcomes)
    /\ live' = receivedAll(live, trace')
    /\ UNCHANGED <<exc, diag, documents>>
    /\ UNCHANGED clientVars

NextPublished == DidChangeContentPublished

SpecPublished == Init /\ [][NextPublished]_vars

(***************************************************************************)
(* The server with its document manager.  The manager keeps the open       *)
(* documents by URI, in the order they were opened; a change replaces the  *)
(* document in its place and is then handed to onDidChangeContent.  A      *)
(* configuration change revalidates them all.  The documents have one line *)
(* here, and the library throws one error.                                 *)
(***************************************************************************)
ConfigurationOutcomes == {<<>>, <<LocatedError>>}

ConfigurationDocuments ==
    {d \in PublishedDocuments : \A i \in 1..Len(d.text) : d.text[i] # "\n"}

DefaultMaxNumberOfProblems == 10

\* settings.composer.maxNumberOfProblems as the client sends it: 0 when unset.
ProblemSettings == {0, 100}

\* The manager's documents after d was opened or changed.
opened(docs, d) ==
    IF \E i \in 1..Len(docs) : docs[i].uri = d.uri
    THEN [i \in 1..Len(docs) |-> IF docs[i].uri = d.uri THEN d ELSE docs[i]]
    ELSE Append(docs, d)

\* The revalidation stopping after the first document.
revalidateFirstOnly(docs, files, outcomes) ==
    IF docs = <<>> THEN nothingDone(files)
    ELSE validateTextDocument(Head(docs), files, Head(outcomes)[1], Head(outcomes)[2])

\* documents.all().forEach(validateTextDocument): the documents in order, each
\* with the tracked file the one before it left; outcomes[i] are the outcomes
\* of the library calls made for the i-th document.
revalidate(docs, files, outcomes) ==
    LET after[i \in 0..Len(docs)] ==
            IF i = 0 THEN nothingDone(files)
            ELSE andThen(after[i - 1],
                         validateTextDocument(docs[i], after[i - 1].aclFiles,
                                              outcomes[i][1], outcomes[i][2]))
    IN  after[Len(docs)]

\* documents.onDidChangeContent, the manager having stored the document.
DidChangeContentOpen ==
    /\ HandleChangeContent(ConfigurationDocuments, ConfigurationOutcomes)
    /\ documents' = opened(documents, event'.document)
    /\ live' = receivedAll(live, trace')
    /\ UNCHANGED <<exc, diag>>
    /\ UNCHANGED clientVars

\* connection.onDidChangeConfiguration
DidChangeConfiguration ==
    /\ serverState = "running"
    /\ \E setting \in ProblemSettings,
          outcomes \in [1..Len(documents) ->
                           ConfigurationOutcomes \X ConfigurationOutcomes] :
        LET r == revalidate(documents, aclFiles, outcomes)
        IN  /\ event' = [kind |-> "didChangeConfiguration",
                         maxNumberOfProblems |->
                             IF setting = 0 THEN DefaultMaxNumberOfProblems
                             ELSE setting,
                         documents |-> documents,
                         aclBefore |-> aclFiles]
            /\ trace' = r.calls
            /\ aclFiles' = r.aclFiles
            /\ serverState' = IF r.uncaught # <<>> THEN "crashed" ELSE "running"
    /\ live' = receivedAll(live, trace')
    /\ UNCHANGED <<exc, diag, documents>>
    /\ UNCHANGED clientVars

NextConfiguration ==
    \/ DidChangeContentOpen
    \/ DidChangeConfiguration

SpecConfiguration == Init /\ [][NextConfiguration]_vars

(***************************************************************************)
(* The client handling openUML requests.  A request handler is called when *)
(* its request arrives, also while the handler of an earlier request is    *)
(* waiting for an editor operation; the user may move the focus between    *)
(* the visible editors at any time.                                        *)
(***************************************************************************)
Settings ==
    [keepSourceFileOpen : BOOLEAN, autoShowDiagam : BOOLEAN,
     previewAutoUpdate : BOOLEAN, previewFileType : {"png", "svg"}]

CtoLeft == [uri |-> CtoUri, viewColumn |-> 1]
CtoRight == [uri |-> CtoUri, viewColumn |-> 2]
AclLeft == [uri |-> AclUri, viewColumn |-> 1]

\* The windows a request may find: the model file alone, the permissions file
\* in front of it, the two side by side with either one active, none at all.
Windows ==
    {[active |-> CtoLeft, visible |-> <<CtoLeft>>, documents |-> {CtoUri}],
     [active |-> AclLeft, visible |-> <<AclLeft>>, documents |-> {AclUri, CtoUri}],
     [active |-> AclLeft, visible |-> <<AclLeft, CtoRight>>,
      documents |-> {AclUri, CtoUri}],
     [active |-> CtoRight, visible |-> <<AclLeft, CtoRight>>,
      documents |-> {AclUri, CtoUri}],
     [active |-> NoEditor, visible |-> <<>>, documents |-> {}]}

ClientWith(slots) ==
    /\ ServerStarted
    /\ TranslatorUnused
    /\ live = NothingLive
    /\ settings \in Settings
    /\ pending = {}
    /\ extensions \in {{}, {PlantUml}}
    /\ editors \in Windows
    /\ puml = [text |-> <<>>, dirty |-> FALSE]
    /\ requests = [r \in slots |-> NotArrived]
    /\ reported = FALSE
    /\ ready = TRUE
    /\ sent = <<>>

InitClient == ClientWith(Requests)

ServerUntouched ==
    UNCHANGED <<aclFiles, serverState, event, trace, exc, diag, live, documents>>

Slots == DOMAIN requests

Awaiting(r, op) == requests[r].pc = op

Free(r) == requests[r].pc = "idle"

Goes(r, req) == requests' = [requests EXCEPT ![r] = req]

\* client.onRequest('openUML', ...): a request arrives and its handler is
\* called; r is the first place not taken by a handler still in progress.
OpenUML(r) ==
    /\ Free(r)
    /\ \A q \in Slots : q < r => ~Free(q)
    /\ \E originatingFileName \in {Undefined, CtoUri} :
          Goes(r, begin(settings, extensions, editors.active, originatingFileName))
    /\ pending' = pending \cup {requests'[r].updates[i] : i \in 1..Len(requests'[r].updates)}
    /\ UNCHANGED <<settings, extensions, editors, puml, reported>>
    /\ ServerUntouched
    /\ UNCHANGED <<ready, sent>>

\* allConfig.update(...) was not awaited: the value is written some time later.
SettingWritten ==
    /\ \E update \in pending :
          /\ settings' = IF update.key = "plantuml.previewAutoUpdate"
                         THEN [settings EXCEPT !.previewAutoUpdate = (update.value = "true")]
                         ELSE [settings EXCEPT !.previewFileType = update.value]
          /\ pending' = pending \ {update}
    /\ UNCHANGED <<extensions, editors, puml, requests, reported>>
    /\ ServerUntouched
    /\ UNCHANGED <<ready, sent>>

ErrorMessageDismissed(r) ==
    /\ Awaiting(r, "showErrorMessage")
    /\ Goes(r, afterErrorMessage(requests[r]))
    /\ reported' = TRUE
    /\ UNCHANGED <<settings, pending, extensions, editors, puml>>
    /\ ServerUntouched
    /\ UNCHANGED <<ready, sent>>

\* workspace.openTextDocument(umlDocUri) resolved.
DocumentOpened(r) ==
    /\ Awaiting(r, "openTextDocument")
    /\ editors' = [editors EXCEPT !.documents = @ \cup {PumlUri}]
    /\ Goes(r, afterOpen(requests[r]))
    /\ UNCHANGED <<settings, pending, extensions, puml, reported>>
    /\ ServerUntouched
    /\ UNCHANGED <<ready, sent>>

\* window.showTextDocument(document, options) resolved.
DocumentShown(r) ==
    /\ Awaiting(r, "showTextDocument")
    /\ editors' = showTextDocument(editors, PumlUri, ViewColumnOne)
    /\ Goes(r, afterShow(requests[r]))
    /\ UNCHANGED <<settings, pending, extensions, puml, reported>>
    /\ ServerUntouched
    /\ UNCHANGED <<ready, sent>>

\* textEditor.edit(...) resolved: the whole text was replaced, or was not.
EditDone(r) ==
    /\ Awaiting(r, "edit")
    /\ \E editApplied \in BOOLEAN :
          /\ puml' = IF editApplied THEN [text |-> docContentOf(r), dirty |-> TRUE]
                     ELSE puml
          /\ Goes(r, afterEdit(requests[r], editApplied))
    /\ UNCHANGED <<settings, pending, extensions, editors, reported>>
    /\ ServerUntouched
    /\ UNCHANGED <<ready, sent>>

\* document.save() resolved.
SaveDone(r) ==
    /\ Awaiting(r, "save")
    /\ \E saved \in BOOLEAN :
          /\ puml' = IF saved THEN [puml EXCEPT !.dirty = FALSE] ELSE puml
          /\ Goes(r, afterSave(requests[r], saved, editors))
    /\ UNCHANGED <<settings, pending, extensions, editors, reported>>
    /\ ServerUntouched
    /\ UNCHANGED <<ready, sent>>

\* commands.executeCommand('plantuml.preview') resolved or rejected.
PreviewDone(r) ==
    /\ Awaiting(r, "plantuml.preview")
    /\ \E threw \in BOOLEAN : Goes(r, afterPreview(requests[r], threw, editors))
    /\ UNCHANGED <<settings, pending, extensions, editors, puml, reported>>
    /\ ServerUntouched
    /\ UNCHANGED <<ready, sent>>

PreviewErrorDismissed(r) ==
    /\ Awaiting(r, "showPreviewError")
    /\ Goes(r, afterPreviewError(requests[r]))
    /\ UNCHANGED <<settings, pending, extensions, editors, puml, reported>>
    /\ ServerUntouched
    /\ UNCHANGED <<ready, sent>>

\* workbench.action.closeActiveEditor took effect, on the editor active now.
CloseDone(r) ==
    /\ Awaiting(r, "closeActiveEditor")
    /\ editors' = closedActive(editors)
    /\ Goes(r, afterCloseOrCursorTop(requests[r], editors'))
    /\ UNCHANGED <<settings, pending, extensions, puml, reported>>
    /\ ServerUntouched
    /\ UNCHANGED <<ready, sent>>

CursorTopDone(r) ==
    /\ Awaiting(r, "cursorTop")
    /\ Goes(r, afterCloseOrCursorTop(requests[r], editors))
    /\ UNCHANGED <<settings, pending, extensions, editors, puml, reported>>
    /\ ServerUntouched
    /\ UNCHANGED <<ready, sent>>

\* window.showTextDocument(the originating document, column) resolved.
FocusRestored(r) ==
    /\ Awaiting(r, "showOriginatingDocument")
    /\ editors' = showTextDocument(editors, requests[r].target.uri,
                                   requests[r].target.viewColumn)
    /\ Goes(r, afterRestoreFocus(requests[r]))
    /\ UNCHANGED <<settings, pending, extensions, puml, reported>>
    /\ ServerUntouched
    /\ UNCHANGED <<ready, sent>>

\* The user (or another extension) gives the focus to another visible editor.
\* What the listener for this change sends to the server is in SpecActiveEditor.
ActiveEditorChanged ==
    /\ \E i \in 1..Len(editors.visible) :
          /\ editors.visible[i] # editors.active
          /\ editors' = [editors EXCEPT !.active = editors.visible[i]]
    /\ UNCHANGED <<settings, pending, extensions, puml, requests, reported>>
    /\ ServerUntouched
    /\ UNCHANGED <<ready, sent>>

NextClient ==
    \/ \E r \in Slots : OpenUML(r)
    \/ \E r \in Slots : ErrorMessageDismissed(r)
    \/ \E r \in Slots : DocumentOpened(r)
    \/ \E r \in Slots : DocumentShown(r)
    \/ \E r \in Slots : EditDone(r)
    \/ \E r \in Slots : SaveDone(r)
    \/ \E r \in Slots : PreviewDone(r)
    \/ \E r \in Slots : PreviewErrorDismissed(r)
    \/ \E r \in Slots : CloseDone(r)
    \/ \E r \in Slots : CursorTopDone(r)
    \/ \E r \in Slots : FocusRestored(r)
    \/ SettingWritten
    \/ ActiveEditorChanged

\* The handlers of at most MaxRequests requests in progress at a time.
SpecClient == InitClient /\ [][NextClient]_vars

\* A further request may arrive while MaxRequests handlers are in progress.
InitOverlap == ClientWith(OverlappingRequests)

SpecOverlap == InitOverlap /\ [][NextClient]_vars

(***************************************************************************)
(* The client's listener for changes of the active editor, registered once *)
(* the language client is ready.  The language kind of a document is any   *)
(* kind the editor knows, whatever its URI.                                *)
(***************************************************************************)
ComposerLanguageIds == {"composer", "composer-acl", "composer-qry"}

EditorLanguageIds == ComposerLanguageIds \cup {"plantuml", "plaintext"}

\* The argument of the listener: <<>> when no editor is active.
ActiveEditors ==
    {<<>>} \cup {<<[uri |-> uri, viewColumn |-> viewColumn]>> :
                    uri \in {CtoUri, AclUri, PumlUri}, viewColumn \in {1, 2}}

\* client.code2ProtocolConverter.asChangeTextDocumentParams(editor.document),
\* sent as a textDocument/didChange notification.
didChangeNotification(uri, text) ==
    [method |-> "textDocument/didChange", uri |-> uri, text |-> text]

\* The listener forwarding the model and the permissions kind only.
onDidChangeActiveTextEditorNoQuery(editor, languageId, text) ==
    IF editor = <<>> THEN <<>>
    ELSE IF languageId \notin {"composer", "composer-acl"} THEN <<>>
    ELSE <<didChangeNotification(editor[1].uri, text)>>

\* window.onDidChangeActiveTextEditor((editor) => ...): the notifications sent.
onDidChangeActiveTextEditor(editor, languageId, text) ==
    IF editor = <<>> THEN <<>>
    ELSE IF /\ languageId # "composer"
            /\ languageId # "composer-acl"
            /\ languageId # "composer-qry"
         THEN <<>>
         ELSE <<didChangeNotification(editor[1].uri, text)>>

\* client.onReady() resolves: the listener is registered.
ClientReady ==
    /\ ~ready
    /\ ready' = TRUE
    /\ UNCHANGED <<settings, pending, extensions, editors, puml, requests, reported, sent>>
    /\ ServerUntouched

\* The active editor changes, to an editor of a document of some kind with
\* some text, or to none; the listener runs if it is registered.
ActiveTextEditorChanged ==
    /\ \E editor \in ActiveEditors, languageId \in EditorLanguageIds, text \in Texts :
          /\ editor = <<>> => (languageId = "plaintext" /\ text = <<>>)
          /\ event' = [kind |-> "didChangeActiveTextEditor", ready |-> ready,
                       editor |-> editor, languageId |-> languageId, text |-> text]
          /\ editors' = IF editor = <<>>
                        THEN [editors EXCEPT !.active = NoEditor, !.visible = <<>>]
                        ELSE [active |-> editor[1], visible |-> editor,
                              documents |-> editors.documents \cup {editor[1].uri}]
          /\ sent' = IF ready THEN onDidChangeActiveTextEditor(editor, languageId, text)
                     ELSE <<>>
    /\ UNCHANGED <<settings, pending, extensions, puml, requests, reported, ready>>
    /\ UNCHANGED <<aclFiles, serverState, trace, exc, diag, live, documents>>

NextActiveEditor ==
    \/ ClientReady
    \/ ActiveTextEditorChanged

SpecActiveEditor == Init /\ [][NextActiveEditor]_vars

(***************************************************************************)
(* Vocabulary of the properties.                                           *)
(***************************************************************************)
IsChange == event.kind = "didChangeContent"

IsNonEmptyChange == IsChange /\ Len(event.document.text) > 0

IsModelChange == IsNonEmptyChange /\ event.document.languageId # "composer-acl"

IsAclChange == IsNonEmptyChange /\ event.document.languageId = "composer-acl"

IsPublish(c) == c.call = "sendDiagnostics"

\* The file getAclFile() returned when the handler started.
TrackedBefore == CHOOSE f \in event.aclBefore : TRUE

Translated == exc.given /\ diag # <<>>

\* The one diagnostic the translator published (where it published one).
Emitted == diag[1].diagnostics[1]

PointRange(line, character) ==
    [start |-> [line |-> line, character |-> character],
     end |-> [line |-> line, character |-> character]]

WholeDocument(lineCount) ==
    [start |-> [line |-> 0, character |-> 0],
     end |-> [line |-> lineCount, character |-> MAX_VALUE]]

Contains(s, p) == \E i \in 0..(Len(s) - Len(p)) : SubSeq(s, i + 1, i + Len(p)) = p

(***************************************************************************)
(* C1  A change of a non-empty document that is not a permissions file     *)
(* makes, in this order, one addModelFile call and one publish for the     *)
(* document's URI, and then, exactly when an ACL file was tracked, one     *)
(* validate() call on that file and one publish for its identifier --      *)
(* whether addModelFile returned or threw.                                 *)
(***************************************************************************)
C1_ModelThenAclCascade ==
    IsModelChange =>
        /\ Len(trace) = IF event.aclBefore # {} THEN 4 ELSE 2
        /\ trace[1].call = "addModelFile"
        /\ trace[1].text = event.document.text
        /\ IsPublish(trace[2])
        /\ trace[2].uri = event.document.uri
        /\ event.aclBefore # {} =>
              /\ trace[3].call = "validate"
              /\ trace[3].uri = TrackedBefore.identifier
              /\ trace[3].text = TrackedBefore.text
              /\ IsPublish(trace[4])
              /\ trace[4].uri = TrackedBefore.identifier

\* The model validation failed and the cascade still ran.
C1_Witness ==
    /\ IsModelChange
    /\ event.aclBefore # {}
    /\ trace[1].thrown # <<>>
    /\ Len(trace) = 4
    /\ trace[3].call = "validate"

(***************************************************************************)
(* C2  A validation whose library calls all return makes exactly one       *)
(* publish, for the validated document's URI, with an empty list.          *)
(***************************************************************************)
\* The call that completes a validation when it returns.
CompletesValidation(c) == c.call \in {"addModelFile", "setAclFile", "validate"}

ValidatedURI(c) ==
    IF c.call = "validate" THEN TrackedBefore.identifier ELSE event.document.uri

C2_SuccessPublishesOneEmptyList ==
    \A i \in 1..Len(trace) :
        (CompletesValidation(trace[i]) /\ trace[i].thrown = <<>>) =>
            /\ i + 1 <= Len(trace)
            /\ trace[i + 1] = sendDiagnostics(ValidatedURI(trace[i]), <<>>)
            /\ i + 2 <= Len(trace) => ~IsPublish(trace[i + 2])

\* A model validation and the cascaded ACL validation both succeeded.
C2_Witness ==
    /\ IsModelChange
    /\ Len(trace) = 4
    /\ trace[1].thrown = <<>>
    /\ trace[3].thrown = <<>>
    /\ event.document.uri # TrackedBefore.identifier

(***************************************************************************)
(* C3  The translator makes exactly one publish for the URI it was given,  *)
(* carrying exactly one diagnostic whose code is the error's name and      *)
(* whose source is the validator's tag, on each of its three paths.        *)
(***************************************************************************)
C3_ExactlyOneDiagnostic ==
    Translated =>
        /\ Len(diag) = 1
        /\ IsPublish(diag[1])
        /\ diag[1].uri = exc.sourceURI
        /\ Len(diag[1].diagnostics) = 1
        /\ Emitted.code = exc.err.name
        /\ Emitted.source = "Composer"

\* An error without accessor and without location text was translated.
C3_Witness ==
    /\ Translated
    /\ ~exc.err.hasGetFileLocation
    /\ ~Contains(fullMsgOf(exc.err), DotLine)
    /\ Len(diag[1].diagnostics) = 1

(***************************************************************************)
(* C4  A structured location {start:(L1,C1), end:(L2,C2)} gives the range  *)
(* (L1-1,C1-1)-(L2-1,C2-1), whatever the line count and the message.       *)
(***************************************************************************)
C4_StructuredRange ==
    (Translated /\ exc.err.hasGetFileLocation /\ exc.err.location # <<>>) =>
        LET location == exc.err.location[1]
        IN  Emitted.range =
                [start |-> [line |-> location.start.line - 1,
                            character |-> location.start.column - 1],
                 end |-> [line |-> location.end.line - 1,
                          character |-> location.end.column - 1]]

\* A located error whose message also carries another location as text.
C4_Witness ==
    /\ Translated
    /\ exc.err.hasGetFileLocation
    /\ exc.err.location # <<>>
    /\ exc.err.location[1].start.line = 2
    /\ exc.err.location[1].end.column = 1
    /\ Contains(exc.err.message, DotLine)
    /\ Emitted.range.start.line = 1

(***************************************************************************)
(* C5  As claimed: an error whose location is falsy or that has no         *)
(* accessor is given the whole-document range, whatever its message.       *)
(***************************************************************************)
C5_Claimed ==
    (Translated /\ exc.err.location = <<>>) =>
        Emitted.range = WholeDocument(exc.lineCount)

(***************************************************************************)
(* C5  Amended: the whole-document range is given to an error whose        *)
(* accessor returns a falsy location, and to an error without accessor     *)
(* whose name-and-message text does not contain ". Line ".                 *)
(***************************************************************************)
C5_DefaultRange ==
    (/\ Translated
     /\ exc.err.location = <<>>
     /\ exc.err.hasGetFileLocation \/ ~Contains(fullMsgOf(exc.err), DotLine)) =>
        Emitted.range = WholeDocument(exc.lineCount)

\* The accessor returned a falsy location for a message that has location text.
C5_Witness ==
    /\ Translated
    /\ exc.err.hasGetFileLocation
    /\ exc.err.location = <<>>
    /\ Contains(exc.err.message, DotLine)
    /\ exc.lineCount = 2
    /\ Emitted.range.end.line = 2

(***************************************************************************)
(* C6  As claimed: for "<text>. Line <L> column <C>" with L, C >= 1 and no *)
(* accessor the emitted message is "<text>." and the range is the point    *)
(* (L-1, C-1).                                                             *)
(***************************************************************************)
HasLineColumnForm(text, L, C) ==
    /\ ~exc.err.hasGetFileLocation
    /\ exc.err.message = text \o DotLine \o decimal(L) \o ColumnWord \o decimal(C)

C6_Claimed ==
    Translated =>
        \A text \in MessageTexts, L \in 1..MaxNum, C \in 1..MaxNum :
            HasLineColumnForm(text, L, C) =>
                /\ Emitted.message = text \o <<".">>
                /\ Emitted.range = PointRange(L - 1, C - 1)

(***************************************************************************)
(* C6  Amended: for "<text>. Line <L> column <C>" with L, C >= 1 and no    *)
(* accessor the emitted message is the error's name, ": " and "<text>.",   *)
(* and the range is the point (L-1, C-1), not reaching the line count.     *)
(***************************************************************************)
C6_LineColumnText ==
    Translated =>
        \A text \in MessageTexts, L \in 1..MaxNum, C \in 1..MaxNum :
            HasLineColumnForm(text, L, C) =>
                /\ Emitted.message = exc.err.name \o ColonSpace \o text \o <<".">>
                /\ Emitted.range = PointRange(L - 1, C - 1)

\* "Foo error. Line 5 column 3" in a one-line document
C6_Witness ==
    /\ Translated
    /\ HasLineColumnForm(Str_Foo, 5, 3)
    /\ exc.lineCount = 1
    /\ Emitted.range = PointRange(4, 2)

(***************************************************************************)
(* C7  As claimed, on the path that reads the location from the text: an   *)
(* unparsable or non-positive line number gives line 0; a missing          *)
(* " column ", or an unparsable or non-positive number after it, gives     *)
(* column 0; no coordinate is negative.                                    *)
(***************************************************************************)
\* The text after the last ". Line " of the error's name-and-message text.
AfterDotLine ==
    substrFrom(fullMsgOf(exc.err), lastIndexOf(fullMsgOf(exc.err), DotLine) + 7)

AfterColumnWord ==
    substrFrom(AfterDotLine, lastIndexOf(AfterDotLine, ColumnWord) + 8)

Unusable(n) == n.isNaN \/ n.value - 1 < 0

C7_Claimed ==
    (Translated /\ ~exc.err.hasGetFileLocation
        /\ Contains(fullMsgOf(exc.err), DotLine)) =>
        /\ Unusable(parseInt(AfterDotLine)) => Emitted.range.start.line = 0
        /\ (\/ ~Contains(AfterDotLine, ColumnWord)
            \/ Unusable(parseInt(AfterColumnWord)))
              => Emitted.range.start.character = 0
        /\ Emitted.range.start.line >= 0
        /\ Emitted.range.start.character >= 0
        /\ Emitted.range.end.line >= 0
        /\ Emitted.range.end.character >= 0

(***************************************************************************)
(* C8  A change of a document with empty text makes no library call and    *)
(* no publish, and leaves the tracked ACL file as it was.                  *)
(***************************************************************************)
C8_EmptyTextDoesNothing ==
    (IsChange /\ Len(event.document.text) = 0) =>
        /\ trace = <<>>
        /\ aclFiles = event.aclBefore

\* An empty permissions document arrived while an ACL file was tracked.
C8_Witness ==
    /\ IsChange
    /\ event.document.text = <<>>
    /\ event.document.languageId = "composer-acl"
    /\ event.aclBefore # {}
    /\ trace = <<>>

(***************************************************************************)
(* C9  As claimed: at most one ACL file is tracked, and after any change   *)
(* of a non-empty permissions document with URI u and n lines the tracked  *)
(* file is the fresh one, with identifier u and line count n.              *)
(***************************************************************************)
FreshAclFile ==
    [identifier |-> event.document.uri, text |-> event.document.text,
     lineCount |-> lineCountOf(event.document.text)]

NoCallThrew == \A i \in 1..Len(trace) : IsPublish(trace[i]) \/ trace[i].thrown = <<>>

C10_ExceptionsBecomeDiagnostics ==
    /\ serverState = "running"
    /\ ENABLED DidChangeContent
    /\ IsNonEmptyChange => \E i \in 1..Len(trace) : IsPublish(trace[i])
    /\ \A i \in 1..Len(trace) :
          (~IsPublish(trace[i]) /\ trace[i].thrown # <<>>) =>
              /\ i + 1 <= Len(trace)
              /\ IsPublish(trace[i + 1])
              /\ trace[i + 1].uri = trace[i].uri
              /\ Len(trace[i + 1].diagnostics) = 1
              /\ trace[i + 1].diagnostics[1].code = trace[i].thrown[1].name

\* addModelFile threw a located error and validate() a plain one, in one event.
C10_Witness ==
    /\ IsModelChange
    /\ Len(trace) = 4
    /\ trace[1].thrown = <<LocatedError>>
    /\ trace[3].thrown = <<UnlocatedError>>
    /\ serverState = "running"

(***************************************************************************)
(* C11  One event is handled to its end before the next, and each publish  *)
(* replaces what the client shows for its URI: after every event the list  *)
(* shown for a URI is the list of the event's last publish for that URI,   *)
(* or what was shown before when the event published nothing for it, and   *)
(* it never holds more than one diagnostic.                                *)
(***************************************************************************)
PublishesFor(calls, u) ==
    {i \in 1..Len(calls) : IsPublish(calls[i]) /\ calls[i].uri = u}

C11_LiveIsLastPublish ==
    [][\A u \in URIs :
          LET P == PublishesFor(trace', u)
          IN  /\ Len(live'[u]) <= 1
              /\ IF P = {} THEN live'[u] = live[u]
                 ELSE live'[u] = trace'[SetMax(P)].diagnostics]_vars

\* One event published twice for the same URI, an empty list and then an
\* error, while the other URI still shows the error of an earlier event.
C11_Witness ==
    /\ IsModelChange
    /\ Len(trace) = 4
    /\ trace[2].uri = trace[4].uri
    /\ trace[2].diagnostics = <<>>
    /\ Len(trace[4].diagnostics) = 1
    /\ live[trace[4].uri] = trace[4].diagnostics
    /\ \E u \in URIs : u # trace[4].uri /\ Len(live[u]) = 1

(***************************************************************************)
(* C15  A change of a non-empty permissions document runs the ACL path     *)
(* only: createAclFile, then setAclFile if that returned, then one         *)
(* publish, for the document's own URI; addModelFile and validate() are    *)
(* not called and no other URI is published.                               *)
(***************************************************************************)
CallCount(name) == Cardinality({i \in 1..Len(trace) : trace[i].call = name})

C15_AclChangeStaysOnAclPath ==
    IsAclChange =>
        /\ \A i \in 1..Len(trace) :
              /\ trace[i].call \in {"createAclFile", "setAclFile", "sendDiagnostics"}
              /\ trace[i].uri = event.document.uri
        /\ trace[1].call = "createAclFile"
        /\ CallCount("setAclFile") = IF trace[1].thrown = <<>> THEN 1 ELSE 0
        /\ CallCount("sendDiagnostics") = 1
        /\ IsPublish(trace[Len(trace)])

\* A permissions document failed to validate while the file of another URI
\* was tracked.
C15_Witness ==
    /\ IsAclChange
    /\ event.aclBefore # {}
    /\ TrackedBefore.identifier # event.document.uri
    /\ Len(trace) = 3
    /\ trace[2].thrown # <<>>
    /\ aclFiles = event.aclBefore

(***************************************************************************)
(* C20  Nothing is retried: a change of a non-empty model document makes   *)
(* exactly one addModelFile call, with the document's whole text, and at   *)
(* most one validate() call; a change of a non-empty permissions document  *)
(* makes at most one createAclFile and at most one setAclFile call.  Since *)
(* this holds of every event, N changes make N addModelFile calls.         *)
(***************************************************************************)
C20_OneAttemptPerEvent ==
    /\ IsModelChange =>
          /\ CallCount("addModelFile") = 1
          /\ trace[1].call = "addModelFile"
          /\ trace[1].text = event.document.text
          /\ CallCount("validate") <= 1
          /\ CallCount("createAclFile") = 0
          /\ CallCount("setAclFile") = 0
    /\ IsAclChange =>
          /\ CallCount("createAclFile") = 1
          /\ CallCount("setAclFile") <= 1
          /\ CallCount("addModelFile") = 0
          /\ CallCount("validate") = 0
          /\ \A i \in 1..Len(trace) :
                ~IsPublish(trace[i]) => trace[i].text = event.document.text

\* addModelFile and the cascaded validate() both threw, and neither was
\* called again.
C20_Witness ==
    /\ IsModelChange
    /\ Len(trace) = 4
    /\ trace[1].thrown # <<>>
    /\ trace[3].thrown # <<>>
    /\ CallCount("addModelFile") = 1
    /\ CallCount("validate") = 1

(***************************************************************************)
(* Vocabulary of the properties of the diagram flow.                       *)
(***************************************************************************)
\* The place of an editor operation in the flow the code is written in.
Rank(op) ==
    CASE op = "showErrorMessage" -> 0
      [] op = "openTextDocument" -> 1
      [] op = "showTextDocument" -> 2
      [] op = "edit" -> 3
      [] op = "save" -> 4
      [] op = "plantuml.preview" -> 5
      [] op = "showPreviewError" -> 6
      [] op = "closeActiveEditor" -> 7
      [] op = "cursorTop" -> 7
      [] op = "showOriginatingDocument" -> 8

Started(q, op) == \E i \in 1..Len(q.ops) : q.ops[i] = op

Times(q, op) == Cardinality({i \in 1..Len(q.ops) : q.ops[i] = op})

InProgress(r) == ~Free(r)

\* The step in which the handler of a request is called.
Arrives(r) == Free(r) /\ requests'[r].pc # "idle"

(***************************************************************************)
(* C12  Within one diagram request the editor operations are started in    *)
(* the order open, show, edit, save, preview (only with auto-show in       *)
(* effect), close or cursor-top, refocus, and none is started before the   *)
(* one before it has completed.                                            *)
(***************************************************************************)
C12_StepsInOrder ==
    \A r \in Slots :
        LET q == requests[r]
            n == Len(q.ops)
        IN  /\ \A i \in 1..(n - 1) : Rank(q.ops[i]) < Rank(q.ops[i + 1])
            /\ \A i \in 1..n :
                  /\ Rank(q.ops[i]) \in 2..5 =>
                        i > 1 /\ Rank(q.ops[i - 1]) = Rank(q.ops[i]) - 1
                  /\ Rank(q.ops[i]) >= 7 =>
                        /\ Started(q, "save")
                        /\ q.autoShowDiagam => Started(q, "plantuml.preview")
                  /\ (Rank(q.ops[i]) = 8 /\ q.keepSrcFileOpen) =>
                        Started(q, "cursorTop")
            /\ Started(q, "plantuml.preview") => q.autoShowDiagam
            /\ q.pc = "idle" => q = NotArrived
            /\ q.pc # "idle" =>
                  /\ n > 0
                  /\ q.pc = q.ops[n]
                  /\ q.ended = n - 1

\* A request went through every operation of the flow, to the last one.
C12_Witness ==
    \E r \in Slots :
        /\ requests[r].pc = "showOriginatingDocument"
        /\ requests[r].ops = <<"openTextDocument", "showTextDocument", "edit", "save",
                               "plantuml.preview", "closeActiveEditor",
                               "showOriginatingDocument">>
        /\ requests[r].ended = 6
        /\ puml.text = docContentOf(r)

(***************************************************************************)
(* C13  (as the specification states it) A step that fails, the edit not   *)
(* applied, the save returning false or the preview command throwing,      *)
(* aborts the rest of the flow: after it the request starts no further     *)
(* editor operation, only the message that reports the failure.            *)
(***************************************************************************)
C13_FailureAborts ==
    \A r \in Slots :
        LET q == requests[r]
        IN  \A i \in 1..Len(q.ops) : \A j \in 1..Len(q.ops) :
                (q.ops[i] \in q.failed /\ i < j) => q.ops[j] = "showPreviewError"

(***************************************************************************)
(* C14  (as the specification states it) The error about the missing       *)
(* previewer is reported one time in a session: a request reports it only  *)
(* if none was reported and dismissed before.                              *)
(***************************************************************************)
C14_ReportedOnce ==
    [][\A r \in Slots :
          (Arrives(r) /\ requests'[r].pc = "showErrorMessage") => ~reported]_vars

(***************************************************************************)
(* C14  (amended) The preview command is invoked only with auto-show       *)
(* enabled and the previewer installed.  With auto-show enabled and the    *)
(* previewer absent, every request reports the error, once and before any  *)
(* other operation, and does not invoke the preview; auto-show is off for  *)
(* that request only, and no update of the auto-show setting is asked for. *)
(***************************************************************************)
C14_PreviewOnlyWithPreviewer ==
    /\ \A r \in Slots :
          LET q == requests[r]
              absent == settings.autoShowDiagam /\ PlantUml \notin extensions
          IN  /\ Started(q, "plantuml.preview") =>
                    settings.autoShowDiagam /\ PlantUml \in extensions
              /\ q.pc # "idle" =>
                    /\ Started(q, "showErrorMessage") <=> absent
                    /\ absent => /\ q.ops[1] = "showErrorMessage"
                                 /\ Times(q, "showErrorMessage") = 1
                                 /\ ~Started(q, "plantuml.preview")
                                 /\ q.autoShowDiagam <=> q.pc = "showErrorMessage"
                    /\ ~absent => q.autoShowDiagam = settings.autoShowDiagam
              /\ \A i \in 1..Len(q.updates) :
                    q.updates[i].key # "composer.UML.autoShowDiagam"
    /\ \A update \in pending : update.key # "composer.UML.autoShowDiagam"

\* After the error had been reported and dismissed, the document written
\* and saved without the preview, a request reports the error again.
C14_Witness ==
    \E r \in Slots :
        /\ reported
        /\ settings.autoShowDiagam
        /\ PlantUml \notin extensions
        /\ requests[r].pc = "showErrorMessage"
        /\ puml.text # <<>>
        /\ ~puml.dirty

(***************************************************************************)
(* C16  (as the specification states it) The client handles one openUML    *)
(* request at a time: no step of a request runs while the flow of an       *)
(* earlier request has not finished.                                       *)
(***************************************************************************)
C16_OneFlowAtATime ==
    Cardinality({r \in Slots : InProgress(r)}) <= 1

(***************************************************************************)
(* C17  A request asks for the update of the previewer's two settings      *)
(* (auto-update to false, file type to svg) exactly when auto-show is      *)
(* enabled, the previewer is installed and auto-update is true or the file *)
(* type is not svg; both or none.  No other step asks for an update, and   *)
(* the settings only ever change to these values.                          *)
(***************************************************************************)
PreviewerSettingsOff ==
    ~settings.previewAutoUpdate /\ settings.previewFileType = "svg"

C17_PreviewerSettingsWritten ==
    [][/\ \A r \in Slots :
             IF Arrives(r)
             THEN /\ requests'[r].updates =
                        IF /\ settings.autoShowDiagam
                           /\ PlantUml \in extensions
                           /\ ~PreviewerSettingsOff
                        THEN <<[key |-> "plantuml.previewAutoUpdate", value |-> "false"],
                               [key |-> "plantuml.previewFileType", value |-> "svg"]>>
                        ELSE <<>>
                  /\ pending' = pending \cup
                        {requests'[r].updates[i] : i \in 1..Len(requests'[r].updates)}
             ELSE InProgress(r)' => requests'[r].updates = requests[r].updates
       /\ (\A r \in Slots : ~Arrives(r)) => pending' \subseteq pending
       /\ settings'.previewAutoUpdate # settings.previewAutoUpdate =>
             ~settings'.previewAutoUpdate
       /\ settings'.previewFileType # settings.previewFileType =>
             settings'.previewFileType = "svg"
       /\ settings'.autoShowDiagam = settings.autoShowDiagam
       /\ settings'.keepSourceFileOpen = settings.keepSourceFileOpen]_vars

\* Both updates a request asked for have been written while it is still in
\* progress: the settings it had found on are off now.
C17_Witness ==
    \E r \in Slots :
        /\ InProgress(r)
        /\ Len(requests[r].updates) = 2
        /\ settings.autoShowDiagam
        /\ PlantUml \in extensions
        /\ PreviewerSettingsOff
        /\ pending = {}

(***************************************************************************)
(* C18  The step after the close or keep-open step of a request: which     *)
(* document is shown to give the focus back, if any.                       *)
(***************************************************************************)
\* The close or keep-open step of request r is over in this step.
ClosingOver(r) ==
    /\ requests[r].pc \in {"save", "plantuml.preview", "closeActiveEditor", "cursorTop"}
    /\ requests'[r].pc \in {"showOriginatingDocument", "idle"}

\* The visible editors are searched first, then the open documents: what a
\* request with the locals of q is doing afterwards, as it is in after.
FocusGoesTo(q, after, ed, attempted) ==
    LET hits == {i \in 1..Len(ed.visible) : ed.visible[i].uri = q.originatingFileName}
    IN  /\ Times(after, "showOriginatingDocument") <= 1
        /\ IF attempted /\ hits # {}
           THEN /\ after.pc = "showOriginatingDocument"
                /\ after.target = ed.visible[CHOOSE i \in hits : \A j \in hits : i <= j]
           ELSE IF attempted /\ q.originatingFileName \in ed.documents
                THEN /\ after.pc = "showOriginatingDocument"
                     /\ after.target = [uri |-> q.originatingFileName,
                                        viewColumn |-> q.targetViewColumn]
                ELSE after.pc = "idle"

C19_ClosesOnlyTempEditor ==
    [][\A r \in Slots :
          /\ requests'[r].keepSrcFileOpen => ~Started(requests'[r], "closeActiveEditor")
          /\ (requests[r].pc = "closeActiveEditor" /\ requests'[r] # requests[r]) =>
                /\ editors.active.uri = PumlUri
                /\ editors' = closedActive(editors)]_vars

(***************************************************************************)
(* C21  The route of a non-empty document depends only on whether its      *)
(* language kind is the permissions kind: a document of any other kind,    *)
(* the query kind included, goes to addModelFile with its whole text, gets *)
(* a publish for its own URI and, exactly when an ACL file is tracked, the *)
(* cascade; createAclFile and setAclFile are not called and the tracked    *)
(* file stays as it was.                                                   *)
(***************************************************************************)
C21_RoutingByAclKindOnly ==
    (IsNonEmptyChange /\ event.document.languageId # "composer-acl") =>
        /\ Len(trace) >= 2
        /\ trace[1] = libraryCall("addModelFile", event.document.uri,
                                  event.document.text, trace[1].thrown)
        /\ IsPublish(trace[2])
        /\ trace[2].uri = event.document.uri
        /\ CallCount("addModelFile") = 1
        /\ CallCount("createAclFile") = 0
        /\ CallCount("setAclFile") = 0
        /\ CallCount("validate") = IF event.aclBefore # {} THEN 1 ELSE 0
        /\ aclFiles = event.aclBefore

\* A query document changed while an ACL file was tracked: it was added as a
\* model file and the ACL file was validated again.
C21_Witness ==
    /\ IsNonEmptyChange
    /\ event.document.languageId = "composer-qry"
    /\ event.aclBefore # {}
    /\ Len(trace) = 4
    /\ trace[1].call = "addModelFile"
    /\ trace[3].call = "validate"
    /\ aclFiles = event.aclBefore

(***************************************************************************)
(* C22  The line count stored on a tracked ACL file is the line count of   *)
(* the document it was created from, also after later changes of a         *)
(* permissions document failed; and a diagnostic of the cascade is built   *)
(* with the identifier and the line count stored on the file that was      *)
(* tracked, not with those of the document that changed.                   *)
(***************************************************************************)
C22_StoredLineCount ==
    /\ \A f \in aclFiles : f.lineCount = lineCountOf(f.text)
    /\ IsChange => aclFiles \in {event.aclBefore, {FreshAclFile}}
    /\ (IsAclChange /\ ~NoCallThrew) => aclFiles = event.aclBefore
    /\ IsChange =>
          \A i \in 1..Len(trace) :
              (trace[i].call = "validate" /\ trace[i].thrown # <<>>) =>
                  /\ i < Len(trace)
                  /\ trace[i + 1] =
                        sendDiagnostics(TrackedBefore.identifier,
                            <<buildDiagnostic(trace[i].thrown[1],
                                              TrackedBefore.lineCount)>>)

\* The cascade failed with an error that has no location: the range of its
\* diagnostic ends at the stored line count, which is not the line count of
\* the model document that changed.
C22_Witness ==
    /\ IsModelChange
    /\ event.aclBefore # {}
    /\ Len(trace) = 4
    /\ trace[3].thrown = <<UnlocatedError>>
    /\ TrackedBefore.lineCount # lineCountOf(event.document.text)
    /\ TrackedBefore.identifier # event.document.uri
    /\ trace[4].uri = TrackedBefore.identifier
    /\ trace[4].diagnostics[1].range = WholeDocument(TrackedBefore.lineCount)

(***************************************************************************)
(* C23  A configuration change hands every open document once, in the      *)
(* document manager's order, to the dispatcher: the non-empty ones are     *)
(* validated in that order, each in the way of its kind.  With an ACL file *)
(* tracked and k open non-empty documents that are not permissions files,  *)
(* the tracked file is validated and published again k times, each         *)
(* non-empty open permissions document once more; and for every URI the    *)
(* last publish of the notification is what the client shows.              *)
(***************************************************************************)
IsConfigurationChange == event.kind = "didChangeConfiguration"

HasText(d) == Len(d.text) > 0

IsEntry(c) == c.call \in {"addModelFile", "createAclFile"}

C23_ConfigurationRevalidatesAll ==
    IsConfigurationChange =>
        LET docs == SelectSeq(event.documents, HasText)
            entries == SelectSeq(trace, IsEntry)
            k == Cardinality({i \in 1..Len(docs) : docs[i].languageId # "composer-acl"})
        IN  /\ event.documents = documents
            /\ Len(entries) = Len(docs)
            /\ \A i \in 1..Len(docs) :
                  /\ entries[i].uri = docs[i].uri
                  /\ entries[i].text = docs[i].text
                  /\ entries[i].call = IF docs[i].languageId = "composer-acl"
                                       THEN "createAclFile" ELSE "addModelFile"
            /\ event.aclBefore # {} => CallCount("validate") = k
            /\ \A i \in 1..Len(trace) :
                  trace[i].call = "validate" =>
                      /\ i < Len(trace)
                      /\ IsPublish(trace[i + 1])
                      /\ trace[i + 1].uri = trace[i].uri
            /\ CallCount("sendDiagnostics") = Len(docs) + CallCount("validate")
            /\ \A u \in URIs :
                  PublishesFor(trace, u) # {} =>
                      live[u] = trace[SetMax(PublishesFor(trace, u))].diagnostics

\* Two model documents open and an ACL file tracked: one notification
\* validated the file twice, with two results, and the client shows the second.
C23_Witness ==
    /\ IsConfigurationChange
    /\ event.aclBefore # {}
    /\ Len(documents) = 2
    /\ CallCount("validate") = 2
    /\ Len(trace) = 8
    /\ trace[4].uri = TrackedBefore.identifier
    /\ trace[8].uri = TrackedBefore.identifier
    /\ trace[4].diagnostics # trace[8].diagnostics
    /\ live[TrackedBefore.identifier] = trace[8].diagnostics

(***************************************************************************)
(* C24  Once the client is ready, a change of the active editor sends      *)
(* exactly one textDocument/didChange notification, for the newly active   *)
(* document, when its language kind is the model, the permissions or the   *)
(* query kind, and nothing when there is no editor or the kind is another; *)
(* before the client is ready nothing is sent.                             *)
(***************************************************************************)
IsActiveEditorChange == event.kind = "didChangeActiveTextEditor"

C24_ActiveEditorNotifies ==
    /\ ~ready => sent = <<>>
    /\ IsActiveEditorChange =>
          IF /\ event.ready
             /\ event.editor # <<>>
             /\ event.languageId \in {"composer", "composer-acl", "composer-qry"}
          THEN /\ Len(sent) = 1
               /\ sent[1].method = "textDocument/didChange"
               /\ sent[1].uri = event.editor[1].uri
               /\ sent[1].uri = editors.active.uri
               /\ sent[1].text = event.text
          ELSE sent = <<>>

\* The client is ready and a query document became the active one: its text
\* was sent.
C24_Witness ==
    /\ IsActiveEditorChange
    /\ event.ready
    /\ event.languageId = "composer-qry"
    /\ event.text # <<>>
    /\ Len(sent) = 1
    /\ sent[1].uri = editors.active.uri

====
